---------------------------- MODULE Spec2Model ----------------------------
(***************************************************************************)
(* A model of the two tutorial notebooks of the repository:                *)
(*   - src/char_rnn_generation_tutorial.ipynb  (character-level RNN that   *)
(*     generates names: data loading, tensors, training, sampling), and    *)
(*   - src/unnamed/part_000  (LSTM part-of-speech tagger: vocabulary       *)
(*     builders, training loop, the character-augmented tagger cell).      *)
(*                                                                         *)
(* Python strings are modelled as sequences of one-character strings, so   *)
(* that indexing, iteration and concatenation are those of the code.  A    *)
(* non-ASCII character is written by its code point ("U+00E9").  Tensors   *)
(* of zeros and ones are functions over 0-based index ranges.  The         *)
(* networks themselves (torch layers) are outside the repository: a        *)
(* network step is modelled by the argument it is given, the hidden state  *)
(* it returns as a term over its arguments, and a nondeterministic         *)
(* highest-scoring index.                                                  *)
(***************************************************************************)
EXTENDS Integers, Sequences, FiniteSets, TLC

VARIABLES
    \* ---- char_rnn_generation_tutorial.ipynb --------------------------
    names_dir,        \* the directory data/names_data/names as glob sees it
    category_lines,   \* dict: category -> list of lines
    all_categories,   \* list of categories, in glob order
    n_categories,     \* len(all_categories), assigned after the loading loop
    file_idx,         \* position of the loading loop in the glob result
    pc,               \* position of the notebook's script
    error,            \* the exception that aborted the script, "" when none
    example,          \* the tuple last returned by randomTrainingExample
    rnn,              \* the global rnn: "undefined" or "RNN"
    \* ---- locals of sample(category, start_letter) --------------------
    spc,              \* position inside sample: "idle", "loop", "return"
    category,         \* argument category
    start_letter,     \* argument start_letter
    category_tensor,
    input,
    hidden,
    output_name,
    i,                \* number of values the loop has taken from range(max_length)
    topi,
    letter,
    result,           \* the value returned by the sample call that just returned
    n_evals,          \* history: network evaluations made by the current sample call
    last_call,        \* history: arguments and results of the latest evaluation
    cell_pos,         \* position in the last cell: the calls of sample that returned
    \* ---- unnamed/part_000 (LSTM tagger notebook) --------------------
    training_data,    \* list of (sentence, tags)
    word_to_ix,
    char_to_ix,
    tag_to_ix,
    tpc,              \* position of the tagger notebook's script
    word_idx,         \* builder loops: words and characters already visited
    char_idx,
    epoch,            \* training loop: the loop variable epoch (-1 while unbound),
    sent_idx,         \*   position in training_data, number of optimizer steps made
    n_steps,
    sentence,         \* loop variables and tensors of the current instance
    tags,
    sentence_in,
    targets,
    inputs,           \* the tensor of the evaluation cells
    model,            \* the global model: "undefined" or the class of the instance
    char_tagger,      \* attributes assigned to the LSTMCharTagger under construction
    kernel_names,     \* class names left bound in the kernel by earlier runs
    executed,         \* statements of the LSTMCharTagger cell that have run
    terror,           \* the exception that aborted the tagger script, "" when none
    \* ---- the LSTMTagger instance and its optimizer --------------------
    model_hidden,     \* model.hidden, as the sentences the LSTM consumed since zeros
    model_grad,       \* the .grad of the parameters: the losses accumulated in it
    fwd_start,        \* history: the hidden state the latest forward call started from
    opt_grad,         \* history: the gradient the latest optimizer.step() applied
    \* ---- char_rnn_generation_tutorial.ipynb: training loop and train ---
    iter,             \* loop variable of the training loop, 0 before the loop
    trpc,             \* position inside train: "idle", "steps", "backward", "update"
    tr_category,      \* argument category_tensor
    tr_input,         \* argument input_line_tensor
    tr_target,        \* argument target_line_tensor
    tr_hidden,
    tr_i,             \* number of values the loop has taken from range(size(0))
    tr_loss,          \* loss: the per-timestep terms summed so far, << >> for 0
    tr_output,        \* output: {} while unbound, else the timestep that produced it
    rnn_grad,         \* p.grad of rnn: the losses accumulated since zero_grad
    n_updates,        \* number of parameter updates applied to rnn
    n_train,          \* history: number of train calls made
    tr_eval,          \* history: arguments and results of the latest step in train
    total_loss,       \* the sum of the losses of a range of iterations
    all_losses,       \* list of means, one per plot_every iterations
    progress,         \* the iterations at which a progress line was printed
    \* ---- unicodeToAscii on its own ------------------------------------
    ascii_s,          \* the string unicodeToAscii is given
    ascii_out         \* its result, and the result of applying it to that again

nb2vars == <<names_dir, category_lines, all_categories, n_categories, file_idx,
             pc, error, example, rnn>>
samplevars == <<spc, category, start_letter, category_tensor, input, hidden,
                output_name, i, topi, letter, result, n_evals, last_call, cell_pos>>
nb1vars == <<training_data, word_to_ix, char_to_ix, tag_to_ix, tpc, word_idx,
             char_idx, epoch, sent_idx, n_steps, sentence, tags, sentence_in,
             targets, inputs, model, char_tagger, kernel_names, executed, terror>>
tagnetvars == <<model_hidden, model_grad, fwd_start, opt_grad>>
trainvars == <<iter, trpc, tr_category, tr_input, tr_target, tr_hidden, tr_i, tr_loss,
               tr_output, rnn_grad, n_updates, n_train, tr_eval, total_loss,
               all_losses, progress>>
asciivars == <<ascii_s, ascii_out>>
vars == <<nb2vars, samplevars, nb1vars, tagnetvars, trainvars, asciivars>>

-----------------------------------------------------------------------------
(* Python sequence helpers                                                  *)

\* s.find(c) / list.index(c): 0-based position of the first c, -1 when absent
Find(s, c) ==
    IF \E k \in 1..Len(s) : s[k] = c
    THEN (CHOOSE k \in 1..Len(s) : s[k] = c /\ \A j \in 1..(k-1) : s[j] # c) - 1
    ELSE -1

\* c in s
Contains(s, c) == \E k \in 1..Len(s) : s[k] = c

\* s[idx] for a 0-based index idx that is in range
At(s, idx) == s[idx + 1]

\* torch.zeros(n): a row of n zeros, indexed from 0
Zeros(n) == [k \in 0..(n-1) |-> 0]

\* row[idx] = 1 with Python's index rule: a negative idx counts from the end
SetOne(row, idx) ==
    LET n == Cardinality(DOMAIN row)
        at == IF idx < 0 THEN idx + n ELSE idx
    IN  [row EXCEPT ![at] = 1]

-----------------------------------------------------------------------------
(* char_rnn_generation_tutorial.ipynb: alphabet                             *)

ascii_lowercase == <<"a","b","c","d","e","f","g","h","i","j","k","l","m",
                     "n","o","p","q","r","s","t","u","v","w","x","y","z">>
ascii_uppercase == <<"A","B","C","D","E","F","G","H","I","J","K","L","M",
                     "N","O","P","Q","R","S","T","U","V","W","X","Y","Z">>
all_letters == ascii_lowercase \o ascii_uppercase \o <<" ", ".", ",", ";", "'", "-">>
\* (n_letters_without_EOS counts the letters only, which is not the notebook's)
n_letters_without_EOS == Len(all_letters)
n_letters == Len(all_letters) + 1   \* plus EOS marker


-----------------------------------------------------------------------------
(* char_rnn_generation_tutorial.ipynb: reading the category files           *)

\* glob.glob('data/names_data/names/*.txt'): the entries of the directory
\* whose extension is txt, in the order the file system lists them; a missing
\* directory matches nothing
findFiles(dir) ==
    IF dir.exists THEN SelectSeq(dir.entries, LAMBDA e : e.ext = "txt") ELSE << >>

\* unicodedata.normalize('NFD', c) of one character: a precomposed letter
\* becomes its base letter followed by the combining mark
NFDChar(c) ==
    CASE c = "U+00E9" -> <<"e", "U+0301">>     \* e with acute
      [] c = "U+00E0" -> <<"a", "U+0300">>     \* a with grave
      [] OTHER -> <<c>>

RECURSIVE NFD(_)
NFD(s) == IF s = << >> THEN << >> ELSE NFDChar(Head(s)) \o NFD(Tail(s))

\* unicodedata.category(c): 'Mn' for the combining marks
UnicodeCategory(c) == IF c \in {"U+0300", "U+0301"} THEN "Mn" ELSE "other"

\* (unicodeToAsciiMarksOnly drops the combining marks but keeps characters
\* outside the alphabet, which is not the notebook's)
unicodeToAsciiMarksOnly(s) ==
    SelectSeq(NFD(s), LAMBDA c : UnicodeCategory(c) # "Mn")
\* (unicodeToAsciiAsWritten filters the string as it is written, without
\* normalising it, which is not the notebook's)
unicodeToAsciiAsWritten(s) ==
    SelectSeq(s, LAMBDA c : UnicodeCategory(c) # "Mn" /\ Contains(all_letters, c))
unicodeToAscii(s) ==
    SelectSeq(NFD(s), LAMBDA c : UnicodeCategory(c) # "Mn" /\ Contains(all_letters, c))

\* str.isspace of one character
IsSpace(c) == c \in {" ", "\n", "\t", "\r"}

\* str.strip(): without leading and trailing whitespace
Strip(s) ==
    LET keep == {k \in 1..Len(s) : ~IsSpace(s[k])}
    IN  IF keep = {} THEN << >>
        ELSE SubSeq(s, CHOOSE k \in keep : \A j \in keep : k <= j,
                       CHOOSE k \in keep : \A j \in keep : k >= j)

\* str.split(sep): the pieces between the separators, at least one piece
RECURSIVE Split(_, _)
Split(s, sep) ==
    IF ~Contains(s, sep) THEN <<s>>
    ELSE LET k == Find(s, sep) + 1
         IN  <<SubSeq(s, 1, k - 1)>> \o Split(SubSeq(s, k + 1, Len(s)), sep)

\* readLines(filename), given what open(filename).read() returns
\* (readLinesSplitlines splits as str.splitlines does, which yields no line
\* for an empty string and is not the notebook's)
readLinesSplitlines(content) ==
    LET lines == IF Strip(content) = << >> THEN << >>
                 ELSE Split(Strip(content), "\n")
    IN  [k \in 1..Len(lines) |-> unicodeToAscii(lines[k])]
readLines(content) ==
    LET lines == Split(Strip(content), "\n")
    IN  [k \in 1..Len(lines) |-> unicodeToAscii(lines[k])]

\* category_lines[cat] = lines
DictSet(d, key, value) ==
    [k \in (DOMAIN d) \cup {key} |-> IF k = key THEN value ELSE d[k]]

DataNotFound == "RuntimeError: Data not found. Make sure that you downloaded data from https://download.pytorch.org/tutorial/data.zip and extract it to the current directory."

-----------------------------------------------------------------------------
(* char_rnn_generation_tutorial.ipynb: tensors                              *)

\* li = all_categories.index(category): list.index raises ValueError for a
\* value that is not in the list   (categoryTensorNeverRaises: a lookup that
\* yields -1 instead, as str.find does, which is not the notebook's)
categoryTensorNeverRaises(cat) == FALSE
categoryTensorRaises(cat) == ~Contains(all_categories, cat)

\* One-hot vector for category (a 1 x n_categories tensor: one row)
categoryTensor(cat) ==
    LET li == Find(all_categories, cat)
    IN  <<SetOne(Zeros(n_categories), li)>>

\* One-hot matrix of first to last letters (len(line) x 1 x n_letters)
\* (inputTensorByPosition sets the 1 at the position of the letter in the
\* line, which is not the notebook's)
inputTensorByPosition(line) ==
    [li \in 1..Len(line) |-> <<SetOne(Zeros(n_letters), li - 1)>>]
inputTensor(line) ==
    [li \in 1..Len(line) |-> <<SetOne(Zeros(n_letters), Find(all_letters, line[li]))>>]

\* LongTensor of second letter to end (EOS) for target
targetTensor(line) ==
    [li \in 1..(Len(line) - 1) |-> Find(all_letters, line[li + 1])] \o <<n_letters - 1>>


-----------------------------------------------------------------------------
(* char_rnn_generation_tutorial.ipynb: the network, as far as sample sees it *)

max_length == 20

\* Bounds on the outcomes of the network that are explored (TopsExplored)
NumTopLetters == 3
FreeSteps == 2

\* the position of the 1 in a one-hot row
HotIndex(row) == CHOOSE k \in DOMAIN row : row[k] = 1

\* rnn.initHidden(): the all-zero hidden state, the term of no update
\* (initHiddenKept stands for a state left by an earlier evaluation, which is
\* not the notebook's)
initHiddenKept == << <<0, 0>> >>
initHidden == << >>

\* the hidden state forward returns, i2h(cat(category, input, hidden)): a
\* function of its three arguments, kept as the term that names them
RnnHidden(cat_t, inp, hid) == Append(hid, <<HotIndex(cat_t[1]), HotIndex(inp[1])>>)

\* output.topk(1): the index forward scores highest.  The weights and the
\* dropout layer, which stays active, are outside the model: any of the
\* n_letters indices may come out of any evaluation
RnnTop(cat_t, inp, hid) == 0..(n_letters - 1)

\* The names the notebook printed when it was run
RecordedNames ==
    { <<"R", "o", "v", "a", "k", "o", "v">>, <<"U", "a", "n", "t", "o", "v">>,
      <<"S", "h", "i", "l", "o", "v">>,
      <<"G", "e", "r", "t", "e", "n">>, <<"E", "r", "e", "n">>,
      <<"R", "o", "n", "g", "e", "r">>,
      <<"S", "a", "l", "l", "a">>, <<"P", "a", "r", "e", "s">>,
      <<"A", "l", "l", "a", "n">>,
      <<"C", "h", "a", "n">>, <<"H", "a", "n", "g">>, <<"I", "u", "n">> }

\* the index that continues `name` to a recorded name, EOS when it is one
TopsRecorded(name) ==
    {Find(all_letters, r[Len(name) + 1]) :
        r \in {q \in RecordedNames : Len(q) > Len(name) /\ SubSeq(q, 1, Len(name)) = name}}
    \cup (IF name \in RecordedNames THEN {n_letters - 1} ELSE {})

TopLetters == (0..(NumTopLetters - 2)) \cup {n_letters - 2}

TopAfter(inp) == IF HotIndex(inp[1]) = n_letters - 2 THEN 0 ELSE n_letters - 2

\* The outcomes of an evaluation that are explored, out of the n_letters the
\* network can give: EOS and whatever leads to a recorded name, always; one of
\* NumTopLetters letters during the first FreeSteps evaluations of a call, and
\* afterwards the one letter TopAfter gives for the input
TopsExplored(name, inp, hid) ==
    (IF Len(hid) < FreeSteps THEN TopLetters ELSE {TopAfter(inp)})
    \cup {n_letters - 1} \cup TopsRecorded(name)

-----------------------------------------------------------------------------
(* char_rnn_generation_tutorial.ipynb: inputs of the model                   *)

\* Bounds on the directory and on the files read
MaxDirEntries == 2
MaxFileLen == 3

CategoryNames == {"Russian", "German"}
DirEntries == [stem : CategoryNames, ext : {"txt"}] \cup {[stem |-> "README", ext |-> "md"]}

\* listings without repetition: a directory holds each file name once
Listings ==
    {l \in UNION {[1..k -> DirEntries] : k \in 0..MaxDirEntries} :
        \A a, b \in DOMAIN l : a # b => l[a] # l[b]}

Directories ==
    {[exists |-> FALSE, entries |-> << >>]} \cup [exists : {TRUE}, entries : Listings]

RawChars == {"a", "Z", " ", "\n", "?", "U+00E9"}
Contents(n) == UNION {[1..k -> RawChars] : k \in 0..n}

\* what the files hold in the specification of the whole script: one name,
\* two names, a name with an accent and a character outside the alphabet
ScriptContents == { <<"Z", "a">>, <<"a", "\n", "Z", "?">>, <<"Z", "U+00E9", " ", "a", "\n">> }

\* A directory that holds a file for each category the last cell samples, and
\* what each of its files holds
SampledDirectory ==
    [exists |-> TRUE,
     entries |-> <<[stem |-> "Chinese", ext |-> "txt"], [stem |-> "German", ext |-> "txt"],
                   [stem |-> "Russian", ext |-> "txt"], [stem |-> "Spanish", ext |-> "txt"]>>]
SampledContents == { <<"Z", "a">> }

ScriptDirectories == Directories \cup {SampledDirectory}
ScriptContentsOf(dir) == IF dir = SampledDirectory THEN SampledContents ELSE ScriptContents

\* samples(category, start_letters): the calls of sample it makes, in order
samples(cat, start_letters) == [k \in 1..Len(start_letters) |-> <<cat, start_letters[k]>>]

\* the calls of the last cell
CellCalls ==
    samples("Russian", <<"R", "U", "S">>) \o samples("German", <<"G", "E", "R">>)
    \o samples("Spanish", <<"S", "P", "A">>) \o samples("Chinese", <<"C", "H", "I">>)

NoSample ==
    /\ spc = "idle" /\ category = "" /\ start_letter = "" /\ category_tensor = << >>
    /\ input = << >> /\ hidden = << >> /\ output_name = << >> /\ i = 0 /\ topi = -1
    /\ letter = "" /\ n_evals = 0 /\ last_call = {}
    /\ cell_pos = 0

\* no train call in progress, no training done
\* total_loss = 0: the sum of no loss.  A sum of losses is kept as the range
\* lo..hi of the iterations whose losses it adds up (none when hi < lo), and
\* the set of any further iterations outside that range
ZeroLoss == [lo |-> 1, hi |-> 0, extra |-> {}]

NoTraining ==
    /\ iter = 0 /\ trpc = "idle" /\ tr_category = << >> /\ tr_input = << >>
    /\ tr_target = << >> /\ tr_hidden = << >> /\ tr_i = 0 /\ tr_loss = << >>
    /\ tr_output = {} /\ rnn_grad = << >> /\ n_updates = 0 /\ n_train = 0
    /\ tr_eval = {}
    /\ total_loss = ZeroLoss /\ all_losses = << >> /\ progress = << >>

InitNames(dirs) ==
    /\ names_dir \in dirs
    /\ category_lines = << >>
    /\ all_categories = << >>
    /\ n_categories = 0
    /\ file_idx = 0
    /\ pc = "load"
    /\ error = ""
    /\ example = {}
    /\ rnn = "undefined"
    /\ NoSample
    /\ result = << >>
    /\ NoTraining


-----------------------------------------------------------------------------
(* char_rnn_generation_tutorial.ipynb: the script                            *)

\* for filename in findFiles(...): one iteration, reading one file
LoadFile(contents) ==
    /\ pc = "load"
    /\ file_idx < Len(findFiles(names_dir))
    /\ LET filename == findFiles(names_dir)[file_idx + 1]
           cat == filename.stem       \* os.path.splitext(os.path.basename(filename))[0]
       IN  \E content \in contents :
             /\ all_categories' = Append(all_categories, cat)
             /\ category_lines' = DictSet(category_lines, cat, readLines(content))
    /\ file_idx' = file_idx + 1
    /\ UNCHANGED <<names_dir, n_categories, pc, error, example, rnn>>
    /\ UNCHANGED <<samplevars, nb1vars, tagnetvars, trainvars, asciivars>>

\* if n_categories == 0: raise RuntimeError(...)
\* (GuardNever: a guard that lets an empty data set pass, not the notebook's)
GuardNever(n) == n < 0
GuardRaises(n) == n = 0

\* n_categories = len(all_categories) and the guard that follows the loop

CheckData ==
    /\ pc = "load"
    /\ file_idx = Len(findFiles(names_dir))
    /\ n_categories' = Len(all_categories)
    /\ IF GuardRaises(Len(all_categories))
       THEN /\ error' = DataNotFound
            /\ pc' = "aborted"
       ELSE /\ error' = error
            /\ pc' = "example"
    /\ UNCHANGED <<names_dir, category_lines, all_categories, file_idx, example, rnn>>
    /\ UNCHANGED <<samplevars, nb1vars, tagnetvars, trainvars, asciivars>>

\* randomChoice(l): any element of the list l
randomChoice(l) == {l[k] : k \in 1..Len(l)}

\* randomTrainingExample(): a random (category, line) pair and its tensors
randomTrainingExample ==
    /\ pc = "example"
    /\ IF all_categories = << >>
       THEN \* random.randint(0, -1)
            /\ error' = "ValueError"
            /\ pc' = "aborted"
            /\ UNCHANGED example
       ELSE /\ \E cat \in randomChoice(all_categories) :
                 \E line \in randomChoice(category_lines[cat]) :
                    example' = {[category |-> cat,
                                 line |-> line,
                                 category_tensor |-> categoryTensor(cat),
                                 input_line_tensor |-> inputTensor(line),
                                 target_line_tensor |-> targetTensor(line)]}
            /\ pc' = "network"
            /\ UNCHANGED error
    /\ UNCHANGED <<names_dir, category_lines, all_categories, n_categories, file_idx,
                   rnn>>
    /\ UNCHANGED <<samplevars, nb1vars, tagnetvars, trainvars, asciivars>>

\* rnn = RNN(n_letters, 128, n_letters); the training loop follows in the
\* same cell
CreateNetwork ==
    /\ pc = "network"
    /\ rnn' = "RNN"
    /\ pc' = "train"
    /\ UNCHANGED <<names_dir, category_lines, all_categories, n_categories, file_idx,
                   error, example>>
    /\ UNCHANGED <<samplevars, nb1vars, tagnetvars, trainvars, asciivars>>

-----------------------------------------------------------------------------
(* char_rnn_generation_tutorial.ipynb: train and the training loop           *)

n_iters == 100000
print_every == 5000
plot_every == 500

\* total_loss += loss, for the loss train returned in iteration it
AddLoss(sum, it) ==
    IF sum.hi < sum.lo /\ sum.extra = {} THEN [lo |-> it, hi |-> it, extra |-> {}]
    ELSE IF it = sum.hi + 1 THEN [sum EXCEPT !.hi = it]
    ELSE [sum EXCEPT !.extra = @ \cup {it}]

\* if iter % print_every == 0
Prints(it) == it % print_every = 0

\* if iter % plot_every == 0
Plots(it) == it % plot_every = 0

\* total_loss / plot_every
Mean(sum, n) == [sum |-> sum, over |-> n]

\* total_loss = 0 after a mean was appended   (TotalKept leaves the sum as it
\* is, which is not the notebook's)
TotalKept(sum) == sum
TotalReset(sum) == ZeroLoss

\* randomTrainingPair(): every (category, line) it can return
randomTrainingPair ==
    UNION {{<<cat, line>> : line \in randomChoice(category_lines[cat])} :
           cat \in randomChoice(all_categories)}

\* the tuple randomTrainingExample() returns for the pair (cat, line)
TrainingExample(cat, line) ==
    [category |-> cat,
     line |-> line,
     category_tensor |-> categoryTensor(cat),
     input_line_tensor |-> inputTensor(line),
     target_line_tensor |-> targetTensor(line)]

\* target_line_tensor.unsqueeze_(-1): every index becomes a 1-element row
unsqueeze_(t) == [k \in 1..Len(t) |-> <<t[k]>>]

\* for iter in range(1, n_iters + 1): whether range yields a value after `it`
IterGoesOn(it) == it < n_iters

\* for i in range(input_line_tensor.size(0)): whether range yields another value
TrainLoopGoesOn(k, inp) == k < Len(inp)

\* l = criterion(output, target_line_tensor[i]) for the output of timestep k
criterion(k, target) == [step |-> k, target |-> target]

\* the loss train has summed after all timesteps of the target tensor tgt of
\* an input of n timesteps (<< >> is the integer 0 that loss starts as)
SummedLoss(n, tgt) == [k \in 1..n |-> criterion(k - 1, tgt[k])]

\* one iteration of the training loop up to the first timestep of train:
\* randomTrainingExample(), then train(...) up to its loop
TrainCall ==
    /\ pc = "train"
    /\ trpc = "idle"
    /\ IterGoesOn(iter)
    /\ iter' = iter + 1
    /\ n_train' = n_train + 1
    /\ \E pair \in randomTrainingPair :
         LET ex == TrainingExample(pair[1], pair[2])
         IN  /\ example' = {ex}
             /\ tr_category' = ex.category_tensor
             /\ tr_input' = ex.input_line_tensor
             /\ tr_target' = unsqueeze_(ex.target_line_tensor)
             /\ trpc' = IF TrainLoopGoesOn(0, ex.input_line_tensor)
                        THEN "steps" ELSE "backward"
    /\ tr_hidden' = initHidden          \* hidden = rnn.initHidden()
    /\ rnn_grad' = << >>                \* rnn.zero_grad()
    /\ tr_loss' = << >>                 \* loss = 0
    /\ tr_i' = 0
    /\ tr_output' = {}
    /\ tr_eval' = {}
    /\ UNCHANGED <<names_dir, category_lines, all_categories, n_categories, file_idx,
                   pc, error, rnn, n_updates, total_loss, all_losses, progress>>
    /\ UNCHANGED <<samplevars, nb1vars, tagnetvars, asciivars>>

\* one timestep of train: the network step, its loss, loss += l
TrainStep ==
    /\ pc = "train"
    /\ trpc = "steps"
    /\ TrainLoopGoesOn(tr_i, tr_input)
    /\ LET inp == tr_input[tr_i + 1]
           hid == RnnHidden(tr_category, inp, tr_hidden)
       IN  /\ tr_hidden' = hid
           /\ tr_output' = {tr_i}
           /\ tr_loss' = Append(tr_loss, criterion(tr_i, tr_target[tr_i + 1]))
           /\ tr_eval' = {[step |-> tr_i, category_tensor |-> tr_category,
                            input |-> inp, hidden |-> tr_hidden, hidden_out |-> hid]}
    /\ tr_i' = tr_i + 1
    /\ trpc' = IF TrainLoopGoesOn(tr_i + 1, tr_input) THEN "steps" ELSE "backward"
    /\ UNCHANGED <<iter, tr_category, tr_input, tr_target, rnn_grad, n_updates,
                   n_train, total_loss, all_losses, progress>>
    /\ UNCHANGED <<nb2vars, samplevars, nb1vars, tagnetvars, asciivars>>

\* loss.backward(): loss is still the integer 0 when no timestep ran, and an
\* integer has no method backward
TrainBackward ==
    /\ pc = "train"
    /\ trpc = "backward"
    /\ IF tr_loss = << >>
       THEN /\ error' = "AttributeError"
            /\ pc' = "aborted"
            /\ trpc' = "raised"
            /\ UNCHANGED rnn_grad
       ELSE /\ rnn_grad' = Append(rnn_grad, tr_loss)
            /\ trpc' = "update"
            /\ UNCHANGED <<error, pc>>
    /\ UNCHANGED <<iter, tr_category, tr_input, tr_target, tr_hidden, tr_i, tr_loss,
                   tr_output, n_updates, n_train, tr_eval, total_loss, all_losses,
                   progress>>
    /\ UNCHANGED <<names_dir, category_lines, all_categories, n_categories, file_idx,
                   example, rnn>>
    /\ UNCHANGED <<samplevars, nb1vars, tagnetvars, asciivars>>

\* the locals of train after its return
ResetTrain ==
    /\ trpc' = "idle" /\ tr_category' = << >> /\ tr_input' = << >>
    /\ tr_target' = << >> /\ tr_hidden' = << >> /\ tr_i' = 0 /\ tr_loss' = << >>
    /\ tr_output' = {} /\ tr_eval' = {}

\* for p in rnn.parameters(): p.data.add_(-learning_rate, p.grad.data), the
\* return of train, and the rest of the iteration of the training loop
TrainUpdate ==
    /\ pc = "train"
    /\ trpc = "update"
    /\ n_updates' = n_updates + 1
    /\ ResetTrain
    /\ LET total == AddLoss(total_loss, iter)     \* total_loss += loss
       IN  /\ progress' = IF Prints(iter) THEN Append(progress, iter) ELSE progress
           /\ IF Plots(iter)
              THEN /\ all_losses' = Append(all_losses, Mean(total, plot_every))
                   /\ total_loss' = TotalReset(total)
              ELSE /\ all_losses' = all_losses
                   /\ total_loss' = total
    /\ UNCHANGED <<iter, rnn_grad, n_train>>
    /\ UNCHANGED <<nb2vars, samplevars, nb1vars, tagnetvars, asciivars>>

\* the training loop is over: range(1, n_iters + 1) is exhausted
EndTraining ==
    /\ pc = "train"
    /\ trpc = "idle"
    /\ ~IterGoesOn(iter)
    /\ pc' = "sample"
    /\ UNCHANGED <<names_dir, category_lines, all_categories, n_categories, file_idx,
                   error, example, rnn>>
    /\ UNCHANGED <<samplevars, nb1vars, tagnetvars, trainvars, asciivars>>

\* The whole training loop in one step, for the specification of the whole
\* script: either every iteration draws a line with a timestep and the loop
\* completes (the last example drawn stays in the variables), or iteration k
\* is the first to draw an empty line and train raises at loss.backward()
\* The bookkeeping of the loop after n whole iterations: a mean for every
\* plot_every iterations, the sum of the iterations since, and a progress line
\* for every print_every iterations
AllLossesAfter(n) ==
    [k \in 1..(n \div plot_every) |->
        Mean([lo |-> plot_every * (k - 1) + 1, hi |-> plot_every * k, extra |-> {}],
             plot_every)]
TotalLossAfter(n) ==
    IF Plots(n) THEN ZeroLoss
    ELSE [lo |-> plot_every * (n \div plot_every) + 1, hi |-> n, extra |-> {}]
ProgressAfter(n) == [k \in 1..(n \div print_every) |-> print_every * k]

TrainingLoop ==
    /\ pc = "train"
    /\ trpc = "idle"
    /\ iter = 0
    /\ \/ \E last \in {p \in randomTrainingPair : p[2] # << >>} :
            LET ex == TrainingExample(last[1], last[2])
            IN  /\ iter' = n_iters
                /\ n_train' = n_iters
                /\ n_updates' = n_iters
                /\ example' = {ex}
                /\ rnn_grad' = <<SummedLoss(Len(ex.input_line_tensor),
                                            unsqueeze_(ex.target_line_tensor))>>
                /\ ResetTrain
                /\ all_losses' = AllLossesAfter(n_iters)
                /\ total_loss' = TotalLossAfter(n_iters)
                /\ progress' = ProgressAfter(n_iters)
                /\ pc' = "sample"
                /\ UNCHANGED error
       \/ \E bad \in {p \in randomTrainingPair : p[2] = << >>} :
            \E k \in 1..n_iters :
              LET ex == TrainingExample(bad[1], bad[2])
              IN  /\ k > 1 => \E p \in randomTrainingPair : p[2] # << >>
                  /\ iter' = k
                  /\ n_train' = k
                  /\ n_updates' = k - 1
                  /\ all_losses' = AllLossesAfter(k - 1)
                  /\ total_loss' = TotalLossAfter(k - 1)
                  /\ progress' = ProgressAfter(k - 1)
                  /\ example' = {ex}
                  /\ rnn_grad' = << >>
                  /\ tr_category' = ex.category_tensor
                  /\ tr_input' = ex.input_line_tensor
                  /\ tr_target' = unsqueeze_(ex.target_line_tensor)
                  /\ tr_hidden' = initHidden
                  /\ tr_i' = 0 /\ tr_loss' = << >> /\ tr_output' = {} /\ tr_eval' = {}
                  /\ trpc' = "raised"
                  /\ error' = "AttributeError"
                  /\ pc' = "aborted"
    /\ UNCHANGED <<names_dir, category_lines, all_categories, n_categories, file_idx,
                   rnn>>
    /\ UNCHANGED <<samplevars, nb1vars, tagnetvars, asciivars>>

-----------------------------------------------------------------------------
(* char_rnn_generation_tutorial.ipynb: sample                                *)

ResetSample ==
    /\ spc' = "idle" /\ category' = "" /\ start_letter' = "" /\ category_tensor' = << >>
    /\ input' = << >> /\ hidden' = << >> /\ output_name' = << >> /\ i' = 0 /\ topi' = -1
    /\ letter' = "" /\ n_evals' = 0 /\ last_call' = {}

\* The next call of the last cell, sample(category, start_letter), up to the
\* loop; all_categories.index raises ValueError for a category that is not
\* listed, which aborts the cell
SampleCall ==
    /\ pc = "sample"
    /\ spc = "idle"
    /\ cell_pos < Len(CellCalls)
    /\ result' = << >>
    /\ UNCHANGED cell_pos
    /\ LET cat == CellCalls[cell_pos + 1][1]
           start == CellCalls[cell_pos + 1][2]
       IN
       IF categoryTensorRaises(cat)
       THEN /\ error' = "ValueError"
            /\ pc' = "aborted"
            /\ ResetSample
       ELSE /\ category' = cat
            /\ start_letter' = start
            /\ category_tensor' = categoryTensor(cat)
            /\ input' = inputTensor(<<start>>)
            /\ hidden' = initHidden
            /\ output_name' = <<start>>
            /\ i' = 0
            /\ spc' = "loop"
            /\ UNCHANGED <<topi, letter, n_evals, last_call, error, pc>>
    /\ UNCHANGED <<names_dir, category_lines, all_categories, n_categories, file_idx,
                   example, rnn>>
    /\ UNCHANGED <<nb1vars, tagnetvars, trainvars, asciivars>>

\* for i in range(max_length): whether range yields another value
\* (SampleLoopForever: a loop without the bound, which is not the notebook's)
SampleLoopForever(k) == TRUE
SampleLoopGoesOn(k) == k < max_length

\* if topi == n_letters - 1: break   (SampleBreaksAt_n: the test without
\* the "- 1", which is not the notebook's)
SampleBreaksAt_n(top) == top = n_letters
SampleBreaks(top) == top = n_letters - 1

\* output_name += letter
SampleAppend(name, l) == name \o <<l>>

\* input = inputTensor(letter): the letter fed to the next evaluation
\* (SampleFeedbackStart feeds the start letter again, which is not the notebook's)
SampleFeedbackStart(name, l) == inputTensor(<<name[1]>>)
SampleFeedback(name, l) == inputTensor(<<l>>)

\* one iteration of the loop of sample; input[0] of the code is input[1] here
SampleStep ==
    /\ pc = "sample"
    /\ spc = "loop"
    /\ SampleLoopGoesOn(i)
    /\ \E top \in RnnTop(category_tensor, input[1], hidden)
                  \cap TopsExplored(output_name, input[1], hidden) :
         LET hid == RnnHidden(category_tensor, input[1], hidden)
         IN  /\ topi' = top
             /\ hidden' = hid
             /\ n_evals' = n_evals + 1
             /\ last_call' = {[category_tensor |-> category_tensor,
                               input |-> input[1],
                               hidden |-> hidden,
                               topi |-> top,
                               hidden_out |-> hid]}
             /\ IF SampleBreaks(top)
                THEN /\ spc' = "return"
                     /\ UNCHANGED <<letter, output_name, input, i, pc, error>>
                ELSE IF top >= Len(all_letters)
                THEN \* all_letters[topi]: string index out of range
                     /\ spc' = "raised"
                     /\ error' = "IndexError"
                     /\ pc' = "aborted"
                     /\ UNCHANGED <<letter, output_name, input, i>>
                ELSE /\ letter' = At(all_letters, top)
                     /\ output_name' = SampleAppend(output_name, At(all_letters, top))
                     /\ input' = SampleFeedback(output_name, At(all_letters, top))
                     /\ i' = i + 1
                     /\ spc' = IF SampleLoopGoesOn(i + 1) THEN "loop" ELSE "return"
                     /\ UNCHANGED <<pc, error>>
    /\ UNCHANGED <<category, start_letter, category_tensor, result, cell_pos>>
    /\ UNCHANGED <<names_dir, category_lines, all_categories, n_categories, file_idx,
                   example, rnn>>
    /\ UNCHANGED <<nb1vars, tagnetvars, trainvars, asciivars>>

\* return output_name
SampleReturn ==
    /\ pc = "sample"
    /\ spc = "return"
    /\ result' = output_name
    /\ cell_pos' = cell_pos + 1
    /\ ResetSample
    /\ UNCHANGED <<nb2vars, nb1vars, tagnetvars, trainvars, asciivars>>

\* the end of the last cell
Finish ==
    /\ pc = "sample"
    /\ spc = "idle"
    /\ cell_pos = Len(CellCalls)
    /\ pc' = "done"
    /\ UNCHANGED <<names_dir, category_lines, all_categories, n_categories, file_idx,
                   error, example, rnn>>
    /\ UNCHANGED <<samplevars, nb1vars, tagnetvars, trainvars, asciivars>>


-----------------------------------------------------------------------------
(* Specifications of char_rnn_generation_tutorial.ipynb                      *)

\* the tagger notebook is not running
\* no LSTMTagger instance
NoTaggerNet ==
    /\ model_hidden = << >> /\ model_grad = << >> /\ fwd_start = {} /\ opt_grad = {}

TaggerOff ==
    /\ training_data = << >> /\ word_to_ix = << >> /\ char_to_ix = << >>
    /\ tag_to_ix = << >> /\ tpc = "off" /\ word_idx = 0 /\ char_idx = 0
    /\ epoch = -1 /\ sent_idx = 0 /\ n_steps = 0 /\ sentence = << >> /\ tags = << >>
    /\ sentence_in = << >> /\ targets = << >> /\ inputs = << >>
    /\ model = "undefined" /\ char_tagger = {} /\ kernel_names = {} /\ executed = {}
    /\ terror = "" /\ NoTaggerNet

\* unicodeToAscii is not run on its own
AsciiOff == ascii_s = << >> /\ ascii_out = << >>

\* The whole script: load, guard, one training example, the network, the
\* training loop, the samples of the last cell
Init == InitNames(ScriptDirectories) /\ TaggerOff /\ AsciiOff

Next ==
    \/ LoadFile(ScriptContentsOf(names_dir))
    \/ CheckData
    \/ randomTrainingExample
    \/ CreateNetwork
    \/ TrainingLoop
    \/ SampleCall
    \/ SampleStep
    \/ SampleReturn
    \/ Finish

Spec == Init /\ [][Next]_vars

\* The data cells alone, over every content of the files within the bound
NextData ==
    \/ LoadFile(Contents(MaxFileLen))
    \/ CheckData
    \/ randomTrainingExample

InitData == InitNames(Directories) /\ TaggerOff /\ AsciiOff

SpecData == InitData /\ [][NextData]_vars

\* The script up to the end of the training loop, iteration by iteration, on
\* a directory with one category file
TrainDirectories == {[exists |-> TRUE, entries |-> <<[stem |-> "Russian", ext |-> "txt"]>>]}
TrainContents == { <<"Z", "a", "\n", "?">> }

InitTrain == InitNames(TrainDirectories) /\ TaggerOff /\ AsciiOff

NextTrain ==
    \/ LoadFile(TrainContents)
    \/ CheckData
    \/ randomTrainingExample
    \/ CreateNetwork
    \/ TrainCall
    \/ TrainStep
    \/ TrainBackward
    \/ TrainUpdate
    \/ EndTraining

SpecTrain == InitTrain /\ [][NextTrain]_vars


-----------------------------------------------------------------------------
(* unnamed/part_000: the corpus                                              *)

The == <<"T", "h", "e">>
dog == <<"d", "o", "g">>
ate == <<"a", "t", "e">>
the == <<"t", "h", "e">>
apple == <<"a", "p", "p", "l", "e">>
Everybody == <<"E", "v", "e", "r", "y", "b", "o", "d", "y">>
read == <<"r", "e", "a", "d">>
that == <<"t", "h", "a", "t">>
book == <<"b", "o", "o", "k">>

\* training_data as the notebook writes it
\* (TrainingDataOtherTag tags "that" as ADJ, which is not the notebook's)
TrainingDataOtherTag ==
    << <<(<<The, dog, ate, the, apple>>), (<<"DET", "NN", "V", "DET", "NN">>)>>,
       <<(<<Everybody, read, that, book>>), (<<"NN", "V", "ADJ", "NN">>)>> >>
TrainingData ==
    << <<(<<The, dog, ate, the, apple>>), (<<"DET", "NN", "V", "DET", "NN">>)>>,
       <<(<<Everybody, read, that, book>>), (<<"NN", "V", "DET", "NN">>)>> >>

\* tag_to_ix = {"DET": 0, "NN": 1, "V": 2}
\* (TagToIxNounFirst numbers the tags in another order, which is not the notebook's)
TagToIxNounFirst ==
    [t \in {"DET", "NN", "V"} |-> CASE t = "NN" -> 0 [] t = "DET" -> 1 [] t = "V" -> 2]
TagToIx == [t \in {"DET", "NN", "V"} |-> CASE t = "DET" -> 0 [] t = "NN" -> 1 [] t = "V" -> 2]

\* Other corpora the builders are run on: one or two non-empty sentences of
\* at most MaxCorpusWords words in all, over three words of the notebook
MaxCorpusWords == 3
WordPool == {The, the, dog}
PoolTag(w) == IF w = dog THEN "NN" ELSE "DET"
Tagged(sent) == <<sent, [k \in 1..Len(sent) |-> PoolTag(sent[k])]>>
Sentences(n) == UNION {[1..k -> WordPool] : k \in 1..n}
OtherCorpora ==
    {<<Tagged(a)>> : a \in Sentences(MaxCorpusWords)}
    \cup {<<Tagged(a), Tagged(b)>> : a, b \in Sentences(MaxCorpusWords - 1)}
Corpora == {TrainingData} \cup {c \in OtherCorpora :
                LET n == Len(c[1][1]) + (IF Len(c) = 2 THEN Len(c[2][1]) ELSE 0)
                IN  n <= MaxCorpusWords}

\* the words of the corpus in the order "for sent, tags in training_data:
\* for word in sent" visits them, and the characters in the order the
\* three nested loops of char_to_ix visit them
RECURSIVE Flatten(_)
Flatten(ss) == IF ss = << >> THEN << >> ELSE Head(ss) \o Flatten(Tail(ss))

AllWords(td) == Flatten([k \in 1..Len(td) |-> td[k][1]])

\* the pass of "for sent, tags in training_data" in which the k-th word of
\* AllWords(td) is visited
SentenceOfWord(td, k) ==
    CHOOSE n \in 1..Len(td) :
        /\ Len(AllWords(SubSeq(td, 1, n - 1))) < k
        /\ k <= Len(AllWords(SubSeq(td, 1, n)))
AllChars(td) == Flatten(AllWords(td))

-----------------------------------------------------------------------------
(* unnamed/part_000: vocabulary builders and encoding                        *)

\* Two variants of the insertion that are not the notebook's: one without the
\* membership test, one whose membership test ignores case
BuilderInsertAlways(to_ix, token) == DictSet(to_ix, token, Cardinality(DOMAIN to_ix))

Lower(c) == IF Contains(ascii_uppercase, c)
            THEN ascii_lowercase[Find(ascii_uppercase, c) + 1] ELSE c
LowerWord(w) == IF DOMAIN w = {} THEN w ELSE [k \in DOMAIN w |-> Lower(w[k])]
BuilderInsertFolded(to_ix, token) ==
    IF \E t \in DOMAIN to_ix : LowerWord(t) = LowerWord(token) THEN to_ix
    ELSE DictSet(to_ix, token, Cardinality(DOMAIN to_ix))

\* if token not in to_ix: to_ix[token] = len(to_ix)
BuilderInsert(to_ix, token) ==
    IF token \in DOMAIN to_ix THEN to_ix
    ELSE DictSet(to_ix, token, Cardinality(DOMAIN to_ix))

\* prepare_sequence(seq, to_ix): idxs = [to_ix[w] for w in seq]
\* (prepare_sequence_positions yields the positions in seq instead of the
\* indices of its tokens, which is not the notebook's)
prepare_sequence_positions(seq, to_ix) == [k \in 1..Len(seq) |-> k - 1]
prepare_sequence(seq, to_ix) == [k \in 1..Len(seq) |-> to_ix[seq[k]]]

\* a lookup to_ix[w] raises KeyError for a token that is no key
HasKeys(seq, to_ix) == \A k \in 1..Len(seq) : seq[k] \in DOMAIN to_ix

epochs == 300

\* for epoch in range(300): whether range yields another value after e values
\* (EpochsLeftInclusive runs one epoch more, which is not the notebook's)
EpochsLeftInclusive(e) == e <= epochs
EpochsLeft(e) == e < epochs

-----------------------------------------------------------------------------
(* unnamed/part_000: the script                                              *)

\* one pass of "if word not in word_to_ix: word_to_ix[word] = len(word_to_ix)",
\* in the first data cell (tpc = "words") and in the cell of the exercise
\* (tpc = "words2"); after the last word the cell goes on: tag_to_ix is set
BuildWord ==
    /\ tpc \in {"words", "words2"}
    /\ word_idx < Len(AllWords(training_data))
    /\ word_to_ix' = BuilderInsert(word_to_ix, AllWords(training_data)[word_idx + 1])
    /\ word_idx' = word_idx + 1
    \* "for sent, tags in training_data" binds the global tags
    /\ tags' = training_data[SentenceOfWord(training_data, word_idx + 1)][2]
    /\ UNCHANGED <<training_data, char_to_ix, tag_to_ix, tpc, char_idx, epoch, sent_idx,
                   n_steps, sentence, sentence_in, targets, inputs, model,
                   char_tagger, kernel_names, executed, terror>>
    /\ UNCHANGED <<nb2vars, samplevars, trainvars, asciivars>>
    /\ UNCHANGED tagnetvars

\* the end of the first data cell: print(word_to_ix); tag_to_ix = {...}
EndWords ==
    /\ tpc = "words"
    /\ word_idx = Len(AllWords(training_data))
    /\ tag_to_ix' = TagToIx
    /\ tpc' = "model"
    /\ UNCHANGED <<training_data, word_to_ix, char_to_ix, word_idx, char_idx, epoch,
                   sent_idx, n_steps, sentence, tags, sentence_in, targets, inputs,
                   model, char_tagger, kernel_names, executed, terror>>
    /\ UNCHANGED <<nb2vars, samplevars, trainvars, asciivars>>
    /\ UNCHANGED tagnetvars

\* LSTMTagger.init_hidden(): the zero state, written as "no sentence consumed"
init_hidden == << >>

\* self.lstm(embeds, self.hidden): the state after consuming one more sentence
Lstm(h, sent) == Append(h, sent)

\* LSTMTagger.forward(sentence) with self.hidden = h and the parameters after
\* `steps` optimizer steps: the scores, and the value left in self.hidden
forward(h, sent, steps) ==
    [tag_scores |-> [params |-> steps, hidden |-> h, sentence |-> sent],
     hidden |-> Lstm(h, sent)]

\* model.zero_grad()   (zero_grad_keeps leaves the gradients in place, which
\* is not the notebook's)
zero_grad_keeps(g) == g
zero_grad(g) == << >>

\* model.hidden = model.init_hidden() in the training loop
\* (hidden_kept leaves model.hidden as it is, which is not the notebook's)
hidden_kept(h) == h
hidden_reset(h) == init_hidden

\* loss_function(tag_scores, targets)
loss_function(tag_scores, tgts) == [tag_scores |-> tag_scores, targets |-> tgts]

\* loss.backward(): the gradient of the loss is added to .grad
backward(g, loss) == Append(g, loss)

\* model = LSTMTagger(...), whose constructor sets self.hidden = init_hidden(),
\* and the scores before training (under torch.no_grad())
CreateTagger ==
    /\ tpc = "model"
    /\ model' = "LSTMTagger"
    /\ IF HasKeys(training_data[1][1], word_to_ix)
       THEN LET ins == prepare_sequence(training_data[1][1], word_to_ix)
            IN  /\ inputs' = ins
                /\ fwd_start' = {[cell |-> "before", hidden |-> init_hidden]}
                /\ model_hidden' = forward(init_hidden, ins, n_steps).hidden
                /\ tpc' = "train"
                /\ UNCHANGED terror
       ELSE /\ terror' = "KeyError"
            /\ tpc' = "aborted"
            /\ model_hidden' = init_hidden
            /\ UNCHANGED <<inputs, fwd_start>>
    /\ UNCHANGED <<training_data, word_to_ix, char_to_ix, tag_to_ix, word_idx, char_idx,
                   epoch, sent_idx, n_steps, sentence, tags, sentence_in, targets,
                   char_tagger, kernel_names, executed>>
    /\ UNCHANGED <<model_grad, opt_grad>>
    /\ UNCHANGED <<nb2vars, samplevars, trainvars, asciivars>>

\* one training instance: the body of "for sentence, tags in training_data"
TrainInstance ==
    /\ tpc = "train"
    /\ sent_idx > 0 \/ EpochsLeft(epoch + 1)
    /\ LET inst == training_data[sent_idx + 1]
       IN  /\ sentence' = inst[1]
           /\ tags' = inst[2]
           \* the first instance of a pass: the outer loop binds epoch
           /\ epoch' = IF sent_idx = 0 THEN epoch + 1 ELSE epoch
           /\ IF HasKeys(inst[1], word_to_ix) /\ HasKeys(inst[2], tag_to_ix)
              THEN LET g0 == zero_grad(model_grad)
                       h0 == hidden_reset(model_hidden)
                       sin == prepare_sequence(inst[1], word_to_ix)
                       tgts == prepare_sequence(inst[2], tag_to_ix)
                       fwd == forward(h0, sin, n_steps)
                       loss == loss_function(fwd.tag_scores, tgts)
                       g1 == backward(g0, loss)
                   IN  /\ sentence_in' = sin
                       /\ targets' = tgts
                       /\ fwd_start' = {[cell |-> "train", hidden |-> h0]}
                       /\ model_hidden' = fwd.hidden
                       /\ model_grad' = g1
                       /\ opt_grad' = {g1}         \* optimizer.step()
                       /\ n_steps' = n_steps + 1
                       /\ sent_idx' = IF sent_idx + 1 < Len(training_data)
                                      THEN sent_idx + 1 ELSE 0
                       /\ UNCHANGED <<tpc, terror>>
              ELSE /\ terror' = "KeyError"
                   /\ tpc' = "aborted"
                   /\ model_grad' = zero_grad(model_grad)
                   /\ model_hidden' = hidden_reset(model_hidden)
                   \* sentence_in is assigned before the tags are looked up
                   /\ sentence_in' = IF HasKeys(inst[1], word_to_ix)
                                     THEN prepare_sequence(inst[1], word_to_ix)
                                     ELSE sentence_in
                   /\ UNCHANGED <<targets, n_steps, sent_idx, fwd_start, opt_grad>>
    /\ UNCHANGED <<training_data, word_to_ix, char_to_ix, tag_to_ix, word_idx, char_idx,
                   inputs, model, char_tagger, kernel_names, executed>>
    /\ UNCHANGED <<nb2vars, samplevars, trainvars, asciivars>>

\* the scores after training (under torch.no_grad()): model(inputs) runs
\* forward with model.hidden as the training loop left it
EvalAfterTraining ==
    /\ tpc = "train"
    /\ sent_idx = 0 /\ ~EpochsLeft(epoch + 1)
    /\ LET ins == prepare_sequence(training_data[1][1], word_to_ix)
       IN  /\ inputs' = ins
           /\ fwd_start' = {[cell |-> "after", hidden |-> model_hidden]}
           /\ model_hidden' = forward(model_hidden, ins, n_steps).hidden
    /\ tpc' = "exercise"
    /\ UNCHANGED <<training_data, word_to_ix, char_to_ix, tag_to_ix, word_idx, char_idx,
                   epoch, sent_idx, n_steps, sentence, tags, sentence_in, targets,
                   model, char_tagger, kernel_names, executed, terror>>
    /\ UNCHANGED <<model_grad, opt_grad>>
    /\ UNCHANGED <<nb2vars, samplevars, trainvars, asciivars>>

\* the cell of the exercise starts: the dimensions, word_to_ix = {}
StartExercise ==
    /\ tpc = "exercise"
    /\ word_to_ix' = << >>
    /\ word_idx' = 0
    /\ tpc' = "words2"
    /\ UNCHANGED <<training_data, char_to_ix, tag_to_ix, char_idx, epoch, sent_idx,
                   n_steps, sentence, tags, sentence_in, targets, inputs, model,
                   char_tagger, kernel_names, executed, terror>>
    /\ UNCHANGED <<nb2vars, samplevars, trainvars, asciivars>>
    /\ UNCHANGED tagnetvars

\* print(word_to_ix); tag_to_ix = {...}; char_to_ix = {}
EndWords2 ==
    /\ tpc = "words2"
    /\ word_idx = Len(AllWords(training_data))
    /\ tag_to_ix' = TagToIx
    /\ char_to_ix' = << >>
    /\ char_idx' = 0
    /\ tpc' = "chars"
    /\ UNCHANGED <<training_data, word_to_ix, word_idx, epoch, sent_idx, n_steps,
                   sentence, tags, sentence_in, targets, inputs, model, char_tagger,
                   kernel_names, executed, terror>>
    /\ UNCHANGED <<nb2vars, samplevars, trainvars, asciivars>>
    /\ UNCHANGED tagnetvars

\* one pass of "if char not in char_to_ix: char_to_ix[char] = len(char_to_ix)"
BuildChar ==
    /\ tpc = "chars"
    /\ char_idx < Len(AllChars(training_data))
    /\ char_to_ix' = BuilderInsert(char_to_ix, AllChars(training_data)[char_idx + 1])
    /\ char_idx' = char_idx + 1
    /\ UNCHANGED <<training_data, word_to_ix, tag_to_ix, tpc, word_idx, epoch, sent_idx,
                   n_steps, sentence, tags, sentence_in, targets, inputs, model,
                   char_tagger, kernel_names, executed, terror>>
    /\ UNCHANGED <<nb2vars, samplevars, trainvars, asciivars>>
    /\ UNCHANGED tagnetvars

\* the end of that cell (def prepare_both_sequences) and the class cell
EndChars ==
    /\ tpc = "chars"
    /\ char_idx = Len(AllChars(training_data))
    /\ tpc' = "char_tagger"
    /\ UNCHANGED <<training_data, word_to_ix, char_to_ix, tag_to_ix, word_idx, char_idx,
                   epoch, sent_idx, n_steps, sentence, tags, sentence_in, targets,
                   inputs, model, char_tagger, kernel_names, executed, terror>>
    /\ UNCHANGED <<nb2vars, samplevars, trainvars, asciivars>>
    /\ UNCHANGED tagnetvars


-----------------------------------------------------------------------------
(* unnamed/part_000: the LSTMCharTagger cell                                 *)

\* the class that the first statement of LSTMCharTagger.__init__ hands to
\* super(); SuperClassOwn is the class's own name, which the code does not use
SuperClassOwn == "LSTMCharTagger"
SuperClass == "LSTMTaggerWithChar"

\* the classes of which an LSTMCharTagger object is an instance
BasesOfCharTagger == {"LSTMCharTagger", "nn.Module", "object"}

\* LSTMCharTagger.__init__(self, ...), statement by statement, as far as it
\* gets: the attributes it has assigned to self and the exception it raises.
\* bound: the class names bound when the call is made.
\*   super(SuperClass, self).__init__()              NameError / TypeError
\*   self.hidden_dim = ...; self.hidden_char_dim = ...
\*   self.word_embeddings = nn.Embedding(vocab_size, embedding_dim)
\*                                NameError: embedding_dim is no name in scope
CharTaggerInit(bound) ==
    IF SuperClass \notin bound
    THEN [attrs |-> {}, error |-> "NameError"]
    ELSE IF SuperClass \notin BasesOfCharTagger
    THEN [attrs |-> {}, error |-> "TypeError"]
    ELSE [attrs |-> {"hidden_dim", "hidden_char_dim"}, error |-> "NameError"]

\* the statements of the cell after the constructor call
AfterConstructor ==
    {"loss_function", "optimizer", "prepare_both_sequences", "init_hidden",
     "forward", "print"}

\* the cell: def get_batch_size; model = LSTMCharTagger(...); loss_function;
\* optimizer; the forward pass.  An exception ends the cell where it is raised.
CharTaggerCell ==
    /\ tpc = "char_tagger"
    /\ LET made == CharTaggerInit({"LSTMTagger", "LSTMCharTagger", "nn.Module", "object"}
                                  \cup kernel_names)
       IN  /\ char_tagger' = made.attrs
           /\ IF made.error # ""
              THEN /\ executed' = {"get_batch_size", "LSTMCharTagger"}
                   /\ terror' = made.error
                   /\ tpc' = "aborted"
                   /\ UNCHANGED model
              ELSE /\ executed' = {"get_batch_size", "LSTMCharTagger"} \cup AfterConstructor
                   /\ model' = "LSTMCharTagger"
                   /\ tpc' = "done"
                   /\ UNCHANGED terror
    /\ UNCHANGED <<training_data, word_to_ix, char_to_ix, tag_to_ix, word_idx, char_idx,
                   epoch, sent_idx, n_steps, sentence, tags, sentence_in, targets,
                   inputs, kernel_names>>
    /\ UNCHANGED <<nb2vars, samplevars, trainvars, asciivars>>
    /\ UNCHANGED tagnetvars

-----------------------------------------------------------------------------
(* Specification of unnamed/part_000                                         *)

\* the name notebook is not running
NamesOff ==
    /\ names_dir = [exists |-> FALSE, entries |-> << >>]
    /\ category_lines = << >> /\ all_categories = << >> /\ n_categories = 0
    /\ file_idx = 0 /\ pc = "off" /\ error = "" /\ example = {} /\ rnn = "undefined"
    /\ NoSample /\ result = << >> /\ NoTraining

InitTagger ==
    /\ training_data \in Corpora
    /\ kernel_names \in SUBSET {"LSTMTaggerWithChar"}
    /\ word_to_ix = << >> /\ char_to_ix = << >> /\ tag_to_ix = << >>
    /\ tpc = "words" /\ word_idx = 0 /\ char_idx = 0
    /\ epoch = -1 /\ sent_idx = 0 /\ n_steps = 0 /\ sentence = << >> /\ tags = << >>
    /\ sentence_in = << >> /\ targets = << >> /\ inputs = << >>
    /\ model = "undefined" /\ char_tagger = {} /\ executed = {} /\ terror = ""
    /\ NoTaggerNet
    /\ NamesOff
    /\ AsciiOff

NextTagger ==
    \/ BuildWord
    \/ EndWords
    \/ CreateTagger
    \/ TrainInstance
    \/ EvalAfterTraining
    \/ StartExercise
    \/ EndWords2
    \/ BuildChar
    \/ EndChars
    \/ CharTaggerCell

SpecTagger == InitTagger /\ [][NextTagger]_vars

\* unicodeToAscii on its own: on every string of at most MaxAsciiLen characters
\* (letters, characters outside the alphabet, precomposed letters, a combining
\* mark) and on the string of the notebook's example, print(unicodeToAscii(
\* "O'N\u00e9\u00e0l")); the function is applied to its argument and then to its
\* own result
MaxAsciiLen == 3
AsciiChars == {"a", "Z", "'", "?", "U+00E9", "U+00E0", "U+0301"}
ExampleName == <<"O", "'", "N", "U+00E9", "U+00E0", "l">>
AsciiInputs == UNION {[1..k -> AsciiChars] : k \in 0..MaxAsciiLen} \cup {ExampleName}

InitAscii ==
    /\ ascii_s \in AsciiInputs
    /\ ascii_out = << >>
    /\ NamesOff
    /\ TaggerOff

ApplyAscii ==
    /\ Len(ascii_out) < 2
    /\ ascii_out' = Append(ascii_out,
                           unicodeToAscii(IF ascii_out = << >> THEN ascii_s
                                          ELSE ascii_out[Len(ascii_out)]))
    /\ UNCHANGED <<ascii_s, nb2vars, samplevars, nb1vars, tagnetvars, trainvars>>

NextAscii == ApplyAscii

SpecAscii == InitAscii /\ [][NextAscii]_vars


-----------------------------------------------------------------------------
(* Properties of char_rnn_generation_tutorial.ipynb                          *)

\* the 0-based position of c in a list s that holds c once
PositionIn(s, c) == CHOOSE p \in 0..(Len(s) - 1) : s[p + 1] = c

\* row holds a single 1, at idx, and 0 everywhere else
OneHotAt(row, idx) ==
    /\ idx \in DOMAIN row
    /\ row[idx] = 1
    /\ \A k \in (DOMAIN row) \ {idx} : row[k] = 0

\* C1: the string sample returns has at most max_length characters, the
\* start letter included.
C1_LengthWithinMax == Len(result) <= max_length

\* C2: when the highest-scoring index of a step is the EOS index, that step
\* appends nothing and ends the loop; what follows is the return of the name
\* accumulated so far, with no further evaluation of the network.
C2_HaltsOnEOS ==
    [][ /\ (spc = "loop" /\ topi' = n_letters - 1) =>
              /\ output_name' = output_name
              /\ spc' = "return"
              /\ n_evals' = n_evals + 1
        /\ (spc = "return") =>
              /\ spc' = "idle"
              /\ result' = output_name
              /\ n_evals' <= n_evals ]_vars

\* EOS at the first step: the start letter alone is about to be returned
C2_Witness ==
    /\ spc = "return" /\ topi = n_letters - 1 /\ n_evals = 1
    /\ output_name = <<start_letter>> /\ start_letter = "R"

\* C5: categoryTensor and every row of inputTensor hold exactly one 1, at the
\* position of the category in all_categories, respectively of the character
\* in all_letters, and 0 elsewhere.
C5_OneHot ==
    /\ \A ex \in example :
         /\ Len(ex.category_tensor) = 1
         /\ DOMAIN ex.category_tensor[1] = 0..(Len(all_categories) - 1)
         /\ Contains(all_categories, ex.category)
         /\ OneHotAt(ex.category_tensor[1], PositionIn(all_categories, ex.category))
         /\ Len(ex.input_line_tensor) = Len(ex.line)
         /\ \A k \in 1..Len(ex.line) :
              /\ DOMAIN ex.input_line_tensor[k][1] = 0..(n_letters - 1)
              /\ Contains(all_letters, ex.line[k])
              /\ OneHotAt(ex.input_line_tensor[k][1], PositionIn(all_letters, ex.line[k]))
    /\ spc \in {"loop", "return"} =>
         /\ OneHotAt(category_tensor[1], PositionIn(all_categories, category))
         /\ Len(input) = 1
         /\ Contains(all_letters, output_name[Len(output_name)])
         /\ OneHotAt(input[1][1], PositionIn(all_letters, output_name[Len(output_name)]))

\* a training example of the second of two categories, whose line has two
\* different letters
C5_Witness ==
    \E ex \in example :
        /\ Len(all_categories) = 2
        /\ ex.category = all_categories[2]
        /\ ex.line = <<"Z", "a">>

\* C7: when no category file is matched the script stops with the
\* RuntimeError that asks for the data, before a network exists and before
\* anything is trained or sampled; when a file is matched that error is not
\* raised.
C7_DataGuard ==
    pc # "load" =>
        IF findFiles(names_dir) = << >>
        THEN /\ n_categories = 0
             /\ pc = "aborted"
             /\ error = DataNotFound
             /\ rnn = "undefined"
             /\ example = {}
             /\ spc = "idle" /\ n_evals = 0 /\ result = << >>
        ELSE /\ n_categories > 0
             /\ error # DataNotFound

\* the directory exists and holds a file, but none that matches *.txt
C7_Witness ==
    /\ names_dir.exists /\ names_dir.entries # << >>
    /\ pc = "aborted" /\ error = DataNotFound

\* C9: the first evaluation of a sample call gets the one-hot of the start
\* letter and the zero hidden state; every later one gets the one-hot of the
\* letter ranked highest by the evaluation before it, which is the letter
\* last appended to output_name, and the hidden state that evaluation
\* returned; the category tensor is the same throughout.
C9_GreedyFeedback ==
    [][ (spc = "loop" /\ n_evals' = n_evals + 1) =>
          /\ last_call' # {}
          /\ \A c \in last_call' :
               /\ c.category_tensor = categoryTensor(category)
               /\ IF n_evals = 0
                  THEN /\ c.input = inputTensor(<<start_letter>>)[1]
                       /\ c.hidden = initHidden
                  ELSE /\ last_call # {}
                       /\ \A p \in last_call :
                            /\ c.input = inputTensor(<<At(all_letters, p.topi)>>)[1]
                            /\ At(all_letters, p.topi) = output_name[Len(output_name)]
                            /\ c.hidden = p.hidden_out
                            /\ c.category_tensor = p.category_tensor ]_vars

\* three evaluations made, the letters ranked highest differ from the start
\* letter and from each other
C9_Witness ==
    /\ spc = "loop" /\ n_evals = 3
    /\ output_name = <<"R", "a", "b", "-">>

\* C10: a sample call evaluates the network at most max_length times and then
\* returns: inside the loop the number of evaluations made is the loop count,
\* which is below max_length, and the next iteration can be taken; after the
\* loop the return can be taken.
C10_SampleTerminates ==
    /\ n_evals <= max_length
    /\ spc = "loop" => (n_evals = i /\ i < max_length /\ ENABLED SampleStep)
    /\ spc = "return" => ENABLED SampleReturn
    /\ spc \in {"idle", "loop", "return"}

\* the network never ranked EOS highest: the loop ran out after max_length
\* evaluations
C10_Witness ==
    /\ spc = "return" /\ n_evals = max_length /\ topi # n_letters - 1


\* Either notebook, its data cells and encodings only
InitEncode == (InitNames(Directories) /\ TaggerOff /\ AsciiOff) \/ InitTagger

NextEncode == NextData \/ NextTagger

SpecEncode == InitEncode /\ [][NextEncode]_vars

-----------------------------------------------------------------------------
(* Properties of unnamed/part_000                                            *)

\* the tokens the builder loops have visited so far
SeenWords == {AllWords(training_data)[k] : k \in 1..word_idx}
SeenChars == {AllChars(training_data)[k] : k \in 1..char_idx}

\* to_ix gives different tokens different indices, and its indices are
\* 0 .. k-1 for its k tokens
Dense(to_ix) ==
    /\ \A a, b \in DOMAIN to_ix : a # b => to_ix[a] # to_ix[b]
    /\ {to_ix[t] : t \in DOMAIN to_ix} = 0..(Cardinality(DOMAIN to_ix) - 1)

BuildersDense ==
    /\ DOMAIN word_to_ix = SeenWords
    /\ Dense(word_to_ix)
    /\ DOMAIN char_to_ix = SeenChars
    /\ Dense(char_to_ix)

\* C3: at every step of the builders of word_to_ix and char_to_ix, the tokens
\* seen so far are exactly the keys, no two keys share an index, the indices
\* are 0 .. k-1 for k keys, and a step never changes the index of a key.
C3_DenseIndices ==
    /\ BuildersDense
    /\ [][ /\ BuildersDense'
           /\ \A t \in (DOMAIN word_to_ix) \cap (DOMAIN word_to_ix') :
                 word_to_ix'[t] = word_to_ix[t]
           /\ \A t \in (DOMAIN char_to_ix) \cap (DOMAIN char_to_ix') :
                 char_to_ix'[t] = char_to_ix[t] ]_vars

\* the builder has just met a word again, and a character again
C3_Witness ==
    /\ tpc = "chars"
    /\ AllWords(training_data) = <<The, dog, The>>
    /\ word_to_ix[The] = 0 /\ word_to_ix[dog] = 1
    /\ char_idx = 9 /\ Cardinality(DOMAIN char_to_ix) = 6

FirstOccurrenceOrder(to_ix, corpus) ==
    \A a, b \in DOMAIN to_ix :
        a # b => (to_ix[a] < to_ix[b] <=> Find(corpus, a) < Find(corpus, b))

\* word_to_ix as the notebook prints it
PrintedWordToIx ==
    [w \in {The, dog, ate, the, apple, Everybody, read, that, book} |->
        CASE w = The -> 0 [] w = dog -> 1 [] w = ate -> 2 [] w = the -> 3
          [] w = apple -> 4 [] w = Everybody -> 5 [] w = read -> 6
          [] w = that -> 7 [] w = book -> 8]

\* C4: indices follow the order of first occurrence, tokens being different
\* whenever they differ in any character, upper or lower case; every word of
\* the corpus has an index once the loop is over, and the notebook's corpus
\* gives The=0 dog=1 ate=2 the=3 apple=4 Everybody=5 read=6 that=7 book=8.
C4_FirstOccurrenceOrder ==
    /\ FirstOccurrenceOrder(word_to_ix, AllWords(training_data))
    /\ FirstOccurrenceOrder(char_to_ix, AllChars(training_data))
    /\ tpc \notin {"off", "words", "words2"} =>
          /\ \A k \in 1..Len(AllWords(training_data)) :
                AllWords(training_data)[k] \in DOMAIN word_to_ix
          /\ training_data = TrainingData => word_to_ix = PrintedWordToIx

\* the notebook's corpus, after the first builder loop
C4_Witness ==
    /\ tpc = "model" /\ training_data = TrainingData
    /\ word_to_ix[The] = 0 /\ word_to_ix[the] = 3 /\ word_to_ix[book] = 8

\* the tokens whose index is ix, through the inverse of the vocabulary
Inverse(to_ix, ix) == {t \in DOMAIN to_ix : to_ix[t] = ix}

\* the one-hot rows of an input tensor, read back as positions of the 1
HotPositions(row) == {p \in DOMAIN row : row[p] = 1}

\* C6: the indices of a training sentence and of its tags, decoded through
\* the inverse of word_to_ix and tag_to_ix, and the rows of inputTensor of a
\* training line, decoded as all_letters[position of the 1], give back the
\* original sequence: same length, same elements, same order.
C6_RoundTrip ==
    /\ (tpc = "train" /\ n_steps > 0) =>
          /\ Len(sentence_in) = Len(sentence)
          /\ \A k \in 1..Len(sentence) : Inverse(word_to_ix, sentence_in[k]) = {sentence[k]}
          /\ Len(targets) = Len(tags)
          /\ \A k \in 1..Len(tags) : Inverse(tag_to_ix, targets[k]) = {tags[k]}
    /\ \A ex \in example :
          /\ Len(ex.input_line_tensor) = Len(ex.line)
          /\ \A k \in 1..Len(ex.line) :
                /\ HotPositions(ex.input_line_tensor[k][1]) \subseteq 0..(Len(all_letters) - 1)
                /\ {At(all_letters, p) : p \in HotPositions(ex.input_line_tensor[k][1])}
                      = {ex.line[k]}

\* the first sentence of the notebook has just been encoded
C6_Witness ==
    /\ tpc = "train" /\ n_steps > 0
    /\ sentence = <<The, dog, ate, the, apple>>
    /\ tags = <<"DET", "NN", "V", "DET", "NN">>

\* C8: the LSTMCharTagger constructor call fails at the super() statement,
\* before the object has any attribute; the exception ends the cell there, so
\* model never is an LSTMCharTagger and no later statement of the cell runs.
C8_ConstructorFails ==
    /\ model # "LSTMCharTagger"
    /\ char_tagger = {}
    /\ tpc # "done"
    /\ executed # {} =>
          /\ tpc = "aborted"
          /\ terror \in {"TypeError", "NameError"}
          /\ executed \cap AfterConstructor = {}

\* the run the notebook records: LSTMTaggerWithChar is a class left over in
\* the kernel, and super() refuses the object
C8_Witness ==
    /\ tpc = "aborted" /\ terror = "TypeError"
    /\ "LSTMCharTagger" \in executed /\ model = "LSTMTagger"

-----------------------------------------------------------------------------
(* Properties of the training data and the training runs                     *)

\* every line stored in category_lines, with the category it is stored under
LinesStored ==
    UNION {{<<c, category_lines[c][k]>> : k \in 1..Len(category_lines[c])} :
           c \in DOMAIN category_lines}

\* the index of the character c in the alphabet is p
IsAlphabetIndex(c, p) == p \in 0..(Len(all_letters) - 1) /\ all_letters[p + 1] = c

\* C11: for every line in category_lines, inputTensor(line) and
\* targetTensor(line) have the same number of timesteps n = len(line), target i
\* is the alphabet index of character i+1 of the line, and the last target is
\* the end-of-sequence index n_letters - 1.
C11_TrainingPairs ==
    \A cl \in LinesStored :
       LET line == cl[2]
           n == Len(line)
           inp == inputTensor(line)
           tgt == targetTensor(line)
       IN  /\ Len(inp) = n
           /\ Len(tgt) = n
           /\ \A k \in 1..(n - 1) : IsAlphabetIndex(line[k + 1], tgt[k])
           /\ tgt[Len(tgt)] = n_letters - 1

\* C12: every forward pass over one sequence starts from the all-zero hidden
\* state: each LSTMTagger forward call (the evaluation before training, every
\* training instance, the evaluation after training) and each train or sample
\* call of the character RNN.
C12_ForwardFromZeros ==
    /\ \A f \in fwd_start : f.hidden = init_hidden
    /\ (trpc = "steps" /\ tr_i = 0) => tr_hidden = initHidden
    /\ (spc = "loop" /\ n_evals = 0) => hidden = initHidden

\* the tagger script is past its training loop
TaggerTrained == tpc \in {"exercise", "words2", "chars", "char_tagger", "done"}

\* C13: the tagger training run performs exactly 300 epochs over the training
\* sentences (2 in the notebook): each epoch processes each sentence exactly
\* once, in corpus order, one optimizer step per instance, 600 steps in total
\* for the notebook's corpus, after which the loop terminates.
C13_TaggerEpochs ==
    LET L == Len(training_data)
    IN  /\ tpc = "train" =>
              /\ epoch \in -1..(epochs - 1) /\ sent_idx \in 0..(L - 1)
              /\ n_steps = (IF sent_idx = 0 THEN epoch + 1 ELSE epoch) * L + sent_idx
              /\ n_steps = 0 <=> epoch = -1
              /\ n_steps > 0 =>
                    /\ sentence = training_data[((n_steps - 1) % L) + 1][1]
                    /\ tags = training_data[((n_steps - 1) % L) + 1][2]
              /\ (ENABLED TrainInstance) # (ENABLED EvalAfterTraining)
        /\ TaggerTrained =>
              /\ epoch = epochs - 1 /\ epochs = 300 /\ sent_idx = 0
              /\ n_steps = epochs * L
              /\ training_data = TrainingData => n_steps = 600
              /\ ~ENABLED TrainInstance

C13_Witness ==
    /\ training_data = TrainingData
    /\ tpc = "exercise"
    /\ n_steps = 600
    /\ sentence = <<Everybody, read, that, book>>

\* the training loop of the character RNN has ended, normally or not
TrainingEnded == rnn = "RNN" /\ pc # "train"

\* C14: the character-RNN training run calls train exactly n_iters = 100,000
\* times, each time on one freshly drawn (category, line) example whose category
\* is an element of all_categories and whose line is an element of
\* category_lines[category], and then terminates.
C14_TrainCalls ==
    /\ n_iters = 100000
    /\ pc = "train" =>
          /\ n_train = iter /\ iter \in 0..n_iters
          /\ IF trpc = "idle"
             THEN (IterGoesOn(iter) /\ randomTrainingPair # {}) \/ ENABLED EndTraining
             ELSE ENABLED (TrainStep \/ TrainBackward \/ TrainUpdate)
    /\ trpc # "idle" =>
          \E ex \in example :
             /\ example = {ex}
             /\ Contains(all_categories, ex.category)
             /\ Contains(category_lines[ex.category], ex.line)
             /\ ex = TrainingExample(ex.category, ex.line)
             /\ tr_category = ex.category_tensor
             /\ tr_input = ex.input_line_tensor
    /\ TrainingEnded => n_train = n_iters

\* C15: in the tagger training loop every instance clears the gradients,
\* resets the hidden state to zeros, runs the forward pass, computes the loss,
\* runs backward and steps the optimizer, in this order; so the gradient
\* applied at every optimizer step holds exactly one loss, that of the current
\* instance (its sentence, its targets, scored from the zero hidden state by
\* the parameters as they were before this step), and nothing of an earlier one.
C15_OneInstanceGradient ==
    \A g \in opt_grad :
       /\ Len(g) = 1
       /\ g[1].targets = targets
       /\ g[1].tag_scores.sentence = sentence_in
       /\ g[1].tag_scores.hidden = init_hidden
       /\ g[1].tag_scores.params = n_steps - 1
       /\ model_grad = g
       /\ tpc = "train" =>
             /\ sentence_in = prepare_sequence(sentence, word_to_ix)
             /\ targets = prepare_sequence(tags, tag_to_ix)

C15_Witness ==
    /\ training_data = TrainingData
    /\ tpc = "train"
    /\ n_steps = 4
    /\ sentence = <<Everybody, read, that, book>>
    /\ opt_grad = {<<[tag_scores |-> [params |-> 3, hidden |-> << >>,
                                      sentence |-> <<5, 6, 7, 8>>],
                      targets |-> <<1, 2, 0, 1>>]>>}

\* the hidden state after stepping the network through the first k timesteps
\* of the input tensor inp, in order, from the zero state
HiddenAfter(cat_t, inp, k) ==
    [j \in 1..k |-> <<HotIndex(cat_t[1]), HotIndex(inp[j][1])>>]

\* C16: in each call of train the hidden state is zeros and the gradients are
\* cleared before the first timestep; the network is stepped once per input
\* timestep, in order, each step taking the hidden state the previous one
\* returned; the per-timestep losses are summed and backward is called exactly
\* once, after the last timestep; the parameters are updated exactly once,
\* after backward.
C16_TrainOrder ==
    /\ (trpc = "steps" /\ tr_i = 0) =>
          tr_hidden = initHidden /\ rnn_grad = << >> /\ tr_loss = << >>
    /\ trpc \in {"steps", "backward", "update"} =>
          /\ tr_i \in 0..Len(tr_input)
          /\ tr_hidden = HiddenAfter(tr_category, tr_input, tr_i)
          /\ tr_loss = SummedLoss(tr_i, tr_target)
          /\ \A e \in tr_eval :
                /\ e.step = tr_i - 1
                /\ e.input = tr_input[tr_i]
                /\ e.hidden = HiddenAfter(tr_category, tr_input, tr_i - 1)
                /\ e.hidden_out = tr_hidden
    /\ trpc \in {"steps", "backward"} => rnn_grad = << >> /\ n_updates = n_train - 1
    /\ trpc = "update" =>
          /\ tr_i = Len(tr_input)
          /\ rnn_grad = <<SummedLoss(Len(tr_input), tr_target)>>
          /\ n_updates = n_train - 1
    /\ (trpc \in {"idle", "raised"} /\ n_train > 0) =>
          /\ Len(rnn_grad) = 1
          /\ n_updates = n_train

\* C17: every line stored in category_lines has at least one character, so
\* every train call has executed at least one network step (and bound `output`)
\* when backward is called and when `output` is returned.
C17_LinesNonEmpty ==
    /\ \A cl \in LinesStored : Len(cl[2]) >= 1
    /\ trpc \in {"backward", "update", "raised"} => tr_i >= 1 /\ tr_output # {}

\* C18: every character of every line stored in category_lines belongs to
\* all_letters; so for the stored lines, and for the training example drawn
\* from them, all_letters.find never returns -1 in inputTensor or targetTensor,
\* no input one-hot row has its 1 in the end-of-sequence slot, and the only
\* target equal to the end-of-sequence index is the last one of each line.
C18_LinesInAlphabet ==
    /\ \A cl \in LinesStored :
          LET line == cl[2]
              inp == inputTensor(line)
              tgt == targetTensor(line)
          IN  /\ \A k \in 1..Len(line) :
                    /\ Contains(all_letters, line[k])
                    /\ Find(all_letters, line[k]) # -1
                    /\ inp[k][1][n_letters - 1] = 0
              /\ \A k \in 1..Len(tgt) :
                    /\ tgt[k] \in 0..(n_letters - 1)
                    /\ tgt[k] = n_letters - 1 <=> k = Len(tgt)
    /\ \A ex \in example :
          /\ <<ex.category, ex.line>> \in LinesStored
          /\ \A k \in 1..Len(ex.input_line_tensor) :
                ex.input_line_tensor[k][1][n_letters - 1] = 0
          /\ \A k \in 1..Len(ex.target_line_tensor) :
                ex.target_line_tensor[k] = n_letters - 1
                   <=> k = Len(ex.target_line_tensor)

\* a file with "?" and an accented letter has been read, and a line of more
\* than one character has been drawn as the training example
C18_Witness ==
    /\ \E c \in DOMAIN category_lines : category_lines[c] = <<<<"e", "Z">>>>
    /\ \E ex \in example :
          /\ ex.line = <<"e", "Z">>
          /\ ex.target_line_tensor = <<51, n_letters - 1>>

\* C19: the end-of-sequence index n_letters - 1 is reserved: it is the index
\* of no character of all_letters; every index the network ranks highest in
\* sample is in 0..n_letters-1, and when it is not the end-of-sequence index it
\* is below len(all_letters), so all_letters[topi] never raises and every
\* character sample appends to the name is a character of all_letters.
C19_EOSReserved ==
    /\ \A p \in 0..(Len(all_letters) - 1) : p # n_letters - 1
    /\ \A k \in 1..Len(all_letters) : Find(all_letters, all_letters[k]) # n_letters - 1
    /\ \A c \in last_call :
          /\ c.topi \in 0..(n_letters - 1)
          /\ ~SampleBreaks(c.topi) =>
                /\ c.topi \in 0..(Len(all_letters) - 1)
                /\ letter = At(all_letters, c.topi)
                /\ output_name[Len(output_name)] = letter
    /\ spc # "raised" /\ error # "IndexError"
    /\ \A k \in 2..Len(output_name) : Contains(all_letters, output_name[k])
    /\ \A k \in 2..Len(result) : Contains(all_letters, result[k])

\* the network ranked the last letter of the alphabet, index n_letters - 2,
\* highest and sample appended it
C19_Witness ==
    /\ spc = "loop"
    /\ topi = n_letters - 2
    /\ output_name = <<"S", "-">>
    /\ \E c \in last_call : c.topi = n_letters - 2

\* the tags of the corpus, in corpus order
AllTags(td) == Flatten([k \in 1..Len(td) |-> td[k][2]])

\* the incremental first-occurrence builder run over a sequence of tokens
RECURSIVE RunBuilder(_, _)
RunBuilder(to_ix, tokens) ==
    IF tokens = << >> THEN to_ix
    ELSE RunBuilder(BuilderInsert(to_ix, Head(tokens)), Tail(tokens))

\* C20: the hard-coded tag_to_ix ({DET: 0, NN: 1, V: 2}) equals the mapping the
\* incremental first-occurrence builder produces over the tag sequences of the
\* notebook's training_data, in corpus order.
C20_TagToIxAsBuilt ==
    (training_data = TrainingData /\ tag_to_ix # << >>) =>
       /\ tag_to_ix = RunBuilder(<< >>, AllTags(training_data))
       /\ DOMAIN tag_to_ix = {"DET", "NN", "V"}
       /\ tag_to_ix["DET"] = 0 /\ tag_to_ix["NN"] = 1 /\ tag_to_ix["V"] = 2

C20_Witness ==
    /\ training_data = TrainingData
    /\ tpc = "train"
    /\ AllTags(training_data) = <<"DET", "NN", "V", "DET", "NN", "NN", "V", "DET", "NN">>
    /\ tag_to_ix = RunBuilder(<< >>, AllTags(training_data))
    /\ tags = <<"NN", "V", "DET", "NN">>
    /\ targets = <<1, 2, 0, 1>>

\* the files of the directory that the pattern *.txt matches
MatchedFiles ==
    {k \in 1..Len(names_dir.entries) : names_dir.exists /\ names_dir.entries[k].ext = "txt"}

\* C21: after the category files are loaded, all_categories contains no
\* duplicate, the key set of category_lines equals the set of elements of
\* all_categories, n_categories equals the number of matched files, and
\* category_lines[c] is a non-empty list for every category c, so
\* randomTrainingPair never indexes an empty list and never looks up a missing
\* category.
C21_CategoriesConsistent ==
    pc # "load" =>
       /\ \A a, b \in 1..Len(all_categories) :
             a # b => all_categories[a] # all_categories[b]
       /\ DOMAIN category_lines = {all_categories[k] : k \in 1..Len(all_categories)}
       /\ n_categories = Cardinality(MatchedFiles)
       /\ n_categories = Len(all_categories)
       /\ \A c \in DOMAIN category_lines : Len(category_lines[c]) >= 1
       /\ n_categories > 0 => randomTrainingPair # {}
       /\ \A pair \in randomTrainingPair :
             /\ pair[1] \in DOMAIN category_lines
             /\ Contains(category_lines[pair[1]], pair[2])
       /\ error \in {"", DataNotFound}
       /\ pc = "network" => example # {}

\* two category files were loaded, one of them empty, and a training pair
\* was drawn
C21_Witness ==
    /\ pc = "network"
    /\ n_categories = 2
    /\ all_categories = <<"German", "Russian">>
    /\ category_lines["German"] = << << >> >>
    /\ category_lines["Russian"] = << <<"a">>, <<"Z">> >>
    /\ \E ex \in example : ex.category = "German" /\ ex.line = << >>


\* The number of whole iterations of the training loop: the one under way, if
\* any, is not counted
IterationsEnded == IF trpc = "idle" THEN iter ELSE iter - 1

\* The sum of the losses of the iterations a..b, and nothing when b < a
LossesOf(a, b) == IF b < a THEN ZeroLoss ELSE [lo |-> a, hi |-> b, extra |-> {}]

\* C22: at the end of every iteration i of the training loop, all_losses has
\* i div plot_every entries and total_loss is the sum of the losses of the
\* iterations after the last multiple of plot_every (0 when i is one); each
\* entry of all_losses is the mean of exactly the plot_every most recent
\* losses; a progress line is printed exactly at the multiples of print_every;
\* and when the loop has ended there are 200 entries and 20 progress lines.
C22_LossBookkeeping ==
    LET done == IterationsEnded
    IN  /\ done >= 0
        /\ Len(all_losses) = done \div plot_every
        /\ total_loss = LossesOf(plot_every * (done \div plot_every) + 1, done)
        /\ done % plot_every = 0 => total_loss = ZeroLoss
        /\ \A k \in 1..Len(all_losses) :
              /\ all_losses[k].over = plot_every
              /\ all_losses[k].sum = LossesOf(plot_every * k - plot_every + 1, plot_every * k)
              /\ all_losses[k].sum.hi - all_losses[k].sum.lo + 1 = plot_every
        /\ Len(progress) = done \div print_every
        /\ \A k \in 1..Len(progress) : progress[k] = print_every * k
        /\ done >= 1 => (Prints(done) <=> Len(progress) >= 1 /\ progress[Len(progress)] = done)
        /\ pc = "sample" => done = n_iters /\ Len(all_losses) = 200 /\ Len(progress) = 20

\* The iteration after the first progress line: ten means are stored, one
\* line is printed, and the sum has started again with one loss
C22_Witness ==
    /\ pc = "train" /\ trpc = "idle" /\ iter = print_every + 1
    /\ Len(all_losses) = 10 /\ progress = <<print_every>>
    /\ all_losses[10] = Mean(LossesOf(4501, 5000), plot_every)
    /\ total_loss = LossesOf(print_every + 1, print_every + 1)


\* C23: during tagger training no vocabulary lookup fails: every word of
\* every training sentence is a key of word_to_ix and every tag is a key of
\* tag_to_ix, and for every training instance sentence_in and targets have
\* the same length, one target tag for each word.
C23_NoLookupFails ==
    /\ terror # "KeyError"
    /\ tpc = "train" =>
          /\ \A k \in 1..Len(training_data) :
                /\ HasKeys(training_data[k][1], word_to_ix)
                /\ HasKeys(training_data[k][2], tag_to_ix)
                /\ Len(training_data[k][1]) = Len(training_data[k][2])
          /\ n_steps > 0 =>
                /\ \E k \in 1..Len(training_data) :
                      sentence = training_data[k][1] /\ tags = training_data[k][2]
                /\ Len(sentence_in) = Len(targets)
                /\ Len(sentence_in) = Len(sentence)
                /\ \A k \in 1..Len(sentence) :
                      /\ sentence_in[k] = word_to_ix[sentence[k]]
                      /\ targets[k] = tag_to_ix[tags[k]]

\* The second instance of the notebook's data has been encoded for training
C23_Witness ==
    /\ tpc = "train" /\ n_steps >= 2 /\ terror = ""
    /\ sentence = <<Everybody, read, that, book>>
    /\ sentence_in = <<5, 6, 7, 8>>
    /\ targets = <<1, 2, 0, 1>>


\* C24: sample is stateless: every step of a call to sample leaves the
\* network (its parameters and gradients), all_categories, category_lines and
\* n_categories as they are (max_length is never assigned), the hidden state
\* is a local that each call creates anew as the zero state and that is gone
\* when the call is over, so the state after any number of calls is the state
\* before them.
C24_SampleStateless ==
    [][pc = "sample" =>
          /\ rnn' = rnn /\ n_updates' = n_updates /\ rnn_grad' = rnn_grad
          /\ all_categories' = all_categories
          /\ category_lines' = category_lines
          /\ n_categories' = n_categories
          /\ names_dir' = names_dir
          /\ (spc = "idle" /\ spc' = "loop") => hidden' = initHidden /\ Len(hidden') = 0
          /\ spc' = "idle" => hidden' = << >> /\ category_tensor' = << >> /\ input' = << >>
    ]_vars

\* A call to sample has returned a name of several letters on a trained network
C24_Witness ==
    /\ pc = "sample" /\ spc = "idle" /\ Len(result) >= 3
    /\ rnn = "RNN" /\ n_updates = n_iters /\ Len(rnn_grad) = 1
    /\ hidden = << >>
    /\ all_categories = <<"German", "Russian">>


\* a is b without some of its elements, the others in the order of b
RECURSIVE IsSubsequence(_, _)
IsSubsequence(a, b) ==
    IF a = << >> THEN TRUE
    ELSE IF b = << >> THEN FALSE
    ELSE IF Head(a) = Head(b) THEN IsSubsequence(Tail(a), Tail(b))
    ELSE IsSubsequence(a, Tail(b))

\* C25: unicodeToAscii returns, for every string, a string made only of
\* characters of all_letters, the kept characters in their original relative
\* order; applying it twice gives what applying it once gives; and it maps
\* O'N<e acute><a grave>l to O'Neal.
C25_UnicodeToAscii ==
    /\ \A n \in 1..Len(ascii_out) :
          \A k \in 1..Len(ascii_out[n]) : Contains(all_letters, ascii_out[n][k])
    /\ Len(ascii_out) >= 1 =>
          /\ IsSubsequence(ascii_out[1], NFD(ascii_s))
          /\ (\A k \in 1..Len(ascii_s) : NFDChar(ascii_s[k]) = <<ascii_s[k]>>)
                 => IsSubsequence(ascii_out[1], ascii_s)
          /\ Len(ascii_out[1]) <= Len(ascii_s)
          /\ ascii_s = ExampleName => ascii_out[1] = <<"O", "'", "N", "e", "a", "l">>
    /\ Len(ascii_out) >= 2 => ascii_out[2] = ascii_out[1]

\* The function has been applied twice to the string of the example
C25_Witness ==
    /\ ascii_s = <<"O", "'", "N", "U+00E9", "U+00E0", "l">>
    /\ ascii_out = << <<"O", "'", "N", "e", "a", "l">>, <<"O", "'", "N", "e", "a", "l">> >>


\* C26: for a category that is not in all_categories, categoryTensor raises
\* instead of returning a tensor, so a call to sample for such a category
\* fails at its entry: no evaluation of the network is made for it, no name
\* is returned, and the cell is aborted with the ValueError.
C26_UnknownCategoryRaises ==
    [][pc = "sample" =>
          /\ \A k \in 1..Len(CellCalls) :
                ~Contains(all_categories, CellCalls[k][1])
                   => categoryTensorRaises(CellCalls[k][1])
          /\ (spc = "idle" /\ spc' = "loop") =>
                /\ Contains(all_categories, category')
                /\ category_tensor' = categoryTensor(category')
                /\ HotIndex(category_tensor'[1]) = Find(all_categories, category')
          /\ n_evals' > n_evals => Contains(all_categories, category)
          /\ (result' # << >> /\ result' # result) => Contains(all_categories, category)
          /\ (spc = "idle" /\ pc' # "done" /\ spc' = "idle") =>
                /\ error' = "ValueError" /\ pc' = "aborted"
                /\ ~Contains(all_categories, CellCalls[cell_pos + 1][1])
                /\ cell_pos' = cell_pos
                /\ n_evals' = 0 /\ last_call' = {} /\ result' = << >>
                /\ category_tensor' = << >>
          /\ error' = "ValueError" => spc = "idle" /\ spc' = "idle"
    ]_vars

\* sample has been called on a trained network for a category that has no
\* file, and has raised
C26_Witness ==
    /\ all_categories = <<"German">> /\ rnn = "RNN" /\ n_updates = n_iters
    /\ categoryTensorRaises("Russian")
    /\ error = "ValueError" /\ pc = "aborted"
    /\ spc = "idle" /\ n_evals = 0 /\ result = << >>

=============================================================================
